---------------------------- MODULE Spec2Model ----------------------------
(***************************************************************************)
(* Solid attenuator: the filter calculation code (calculator.py) and the   *)
(* system PV group that drives it (db/system.py, satt_app.py).             *)
(*                                                                         *)
(* Numbers.  Transmissions are exact rationals [num, den] in lowest terms  *)
(* (the code uses IEEE doubles; rounding of the products is not modelled). *)
(* np.nan is the value NaN.  Python indices are 0-based, the sequences     *)
(* here are 1-based: Python index k is position k + 1.                     *)
(* Energies are integers in units of 0.01 eV (the grid is rounded to two   *)
(* decimals by _ev_linear).                                                *)
(***************************************************************************)
EXTENDS Integers, Naturals, Sequences, FiniteSets, TLC

VARIABLES
    \* ---- find_configs (calculator.py) ----
    all_transmissions,  \* argument: sequence of (rational or NaN)
    t_des,              \* argument: rational
    nan_as_int,         \* what ndarray.astype(int) makes of NaN on this build
    result,             \* outcome: Returned(<<floor Config, ceiling Config>>) or Raised(..)
    cache,              \* functools.lru_cache of in_out_combinations: entries, most recent last
    pc,                 \* "call" before find_configs ran, "done" after
    \* ---- find_closest_energy (calculator.py) ----
    ev_low, ev_high,    \* bounds the absorption table was built with
    table,              \* column 0 of the absorption table (the energy grid)
    f2_column,          \* column 1: per row, the energy its f2 was interpolated at
    photon_energy,      \* argument
    closest,            \* outcome: Returned(<<closest_eV, closest_idx>>) or Raised(..)
    epc,                \* "call" / "done"
    \* ---- SystemGroup (db/system.py) and IOCMain (satt_app.py) ----
    filters,            \* blade index -> [transmission, is_stuck]
    desired_transmission,
    calc_mode,
    best_config,
    best_config_error,
    calculated_transmission,
    energy_source, energy_actual, energy_custom, energy_calc,
    rpc,                \* position of the run_calculation coroutine
    run_energy,         \* run_calculation local: energy
    run_filter,         \* run_calculation local: the filter the loop is at
    run_config,         \* run_calculation local: config
    run_t_des,          \* the t_des argument run_calculation handed to get_best_config
    runs,               \* number of runs of run_calculation started so far
    \* ---- a process making several calls of the calculator ----
    hit,                \* whether the last call found its table in the lru_cache
    aliased,            \* rows of cached tables the last returned filter_states share memory with
    call_mode,          \* the mode argument of get_best_config
    best,               \* outcome of get_best_config
    \* ---- in_out_combinations, step by step ----
    blades_arg,         \* the num_blades argument
    tuples,             \* the tuples list(itertools.product(..)) has taken so far
    combos,             \* outcome: Returned(table) or Raised(..)
    cpc,                \* "idle", "product" while the list is being built, "done"
    \* ---- SystemGroup: the monitors of the motor and energy PVs ----
    mon_started,        \* which startup hooks have run up to their monitor loop
    all_status,         \* active_config startup local: motor PV -> connected
    conn_events,        \* whether a connection event of a motor PV was handled
    active_alarm,       \* alarm of ActiveConfiguration_RBV: [status, severity]
    active_config,      \* value of ActiveConfiguration_RBV
    energy_alarm,       \* alarm of ActualPhotonEnergy_RBV
    \* ---- SystemGroup: apply_config, its queue and its put thread ----
    putters,            \* client -> its running apply_config putter: position in the zip, the
                        \* best_config value it iterates, and what it has enqueued
    put_queue,          \* _pv_put_queue: items [seq, pv, value], oldest first
    put_count,          \* number of items enqueued so far (seq of the newest)
    true_writes,        \* number of writes of 'True' served so far
    thread_item,        \* the item put_thread holds between get() and write()
    thread_running,     \* whether put_thread is still in its loop
    last_delivered,     \* seq of the last item put_thread called pv.write for
    out_of_order,       \* whether put_thread ever took an item out of sequence
    raised_seq          \* seq of the last item whose pv.write raised (0: none)

calcVars == <<all_transmissions, t_des, nan_as_int, result, cache, pc>>
energyVars == <<ev_low, ev_high, table, f2_column, photon_energy, closest, epc>>
sysVars == <<filters, desired_transmission, calc_mode, best_config,
             best_config_error, calculated_transmission, energy_source,
             energy_actual, energy_custom, energy_calc, rpc, run_energy,
             run_filter, run_config, run_t_des, runs>>
callVars == <<hit, aliased, call_mode, best>>
comboVars == <<blades_arg, tuples, combos, cpc>>
monVars == <<mon_started, all_status, conn_events, active_alarm, active_config,
            energy_alarm>>
applyVars == <<putters, put_queue, put_count, true_writes, thread_item,
              thread_running, last_delivered, out_of_order, raised_seq>>
otherVars == <<callVars, comboVars, monVars, applyVars>>
vars == <<calcVars, energyVars, sysVars, otherVars>>

-----------------------------------------------------------------------------
(* Bounds of the model *)

\* longest transmission vector drawn with arbitrary entries
MaxBlades == 3
\* longest vector drawn with every blade unavailable
MaxStuckBlades == 5
\* targets are k/10 for k in 0..MaxTargetTenths (above 10: beyond full transmission)
MaxTargetTenths == 11
\* absorption tables span 1 eV and up to MaxSpanQuarters quarter-eV more
MaxSpanQuarters == 4
\* photon energies are drawn up to PhotonMargin (0.01 eV) outside the table
PhotonMargin == 30
\* run_calculation is started at most MaxRuns times
MaxRuns == 1
\* ApplyConfiguration is written 'True' at most MaxApplyWrites times
MaxApplyWrites == 2
\* longest transmission vector of the repeated calls
MaxCallBlades == 2
\* a number of blades beyond what can be enumerated in practice
ManyBlades == 25

-----------------------------------------------------------------------------
(* Rational arithmetic *)

\* np.nan, as the quotient 0/0; every other rational has den > 0
NaN == [num |-> 0, den |-> 0]

Abs(x) == IF x < 0 THEN -x ELSE x
Min(a, b) == IF a <= b THEN a ELSE b
Max(a, b) == IF a >= b THEN a ELSE b

RECURSIVE Gcd(_, _)
Gcd(a, b) == IF b = 0 THEN a ELSE Gcd(b, a % b)

RECURSIVE Pow(_, _)
Pow(b, e) == IF e = 0 THEN 1 ELSE b * Pow(b, e - 1)

\* the rational n/d (d > 0) in lowest terms; NaN for d = 0
Rat(n, d) ==
    IF d = 0 THEN NaN
    ELSE LET g == Gcd(Abs(n), d)
         IN  [num |-> n \div g, den |-> d \div g]

\* IEEE arithmetic on them: NaN propagates, and every comparison with NaN
\* is false
One == Rat(1, 1)
RMul(a, b) == Rat(a.num * b.num, a.den * b.den)
RSub(a, b) == Rat(a.num * b.den - b.num * a.den, a.den * b.den)
RAbs(a) == [num |-> Abs(a.num), den |-> a.den]
RLt(a, b) == a # NaN /\ b # NaN /\ a.num * b.den < b.num * a.den
RLe(a, b) == a # NaN /\ b # NaN /\ a.num * b.den <= b.num * a.den
REq(a, b) == a # NaN /\ b # NaN /\ a = b

\* the outcome of a call: a returned value or a raised exception
NoError == "none"
Returned(v) == [raised |-> NoError, value |-> v]
Raised(e) == [raised |-> e, value |-> <<>>]
NotCalled == [raised |-> "not called", value |-> <<>>]

-----------------------------------------------------------------------------
(* numpy helpers used by find_configs.  An ndarray is [dtype, data]; a     *)
(* float array holds rationals or NaN, an int array holds integers.        *)

\* the sequence f with every element evaluated (an array held in memory)
Arr(f) == SubSeq(f, 1, Len(f))

FloatArray(seq) == [dtype |-> "float", data |-> seq]
IntArray(seq) == [dtype |-> "int", data |-> seq]

\* the most negative platform integer, the usual outcome of casting NaN to
\* an integer on x86 (written -2^31: the width of the integers checked here)
IntMin == -2147483647 - 1

\* ndarray.astype(np.int) of a NaN element is undefined by C: the builds in
\* use give IntMin (x86) or 0 (aarch64)
NanCastOutcomes == {0, IntMin}

\* x * y of two float elements: NaN propagates
multiply_elem(x, y) == IF x = NaN \/ y = NaN THEN NaN ELSE RMul(x, y)

\* all_transmissions * row, elementwise
multiply(a, row) == Arr([j \in 1..Len(a) |-> multiply_elem(a[j], row[j])])

\* nanprod with NaN counted as zero
RECURSIVE nanprod_nan_zero(_)
nanprod_nan_zero(seq) ==
    IF seq = <<>> THEN One
    ELSE RMul(IF Head(seq) = NaN THEN Rat(0, 1) ELSE Head(seq),
              nanprod_nan_zero(Tail(seq)))

\* np.prod in place of np.nanprod: a NaN factor makes the product NaN
RECURSIVE nanprod_as_prod(_)
nanprod_as_prod(seq) ==
    IF seq = <<>> THEN One
    ELSE multiply_elem(Head(seq), nanprod_as_prod(Tail(seq)))

\* nanprod accumulating from zero
RECURSIVE nanprod_from_zero(_)
nanprod_from_zero(seq) ==
    IF seq = <<>> THEN Rat(0, 1)
    ELSE RMul(IF Head(seq) = NaN THEN One ELSE Head(seq),
              nanprod_from_zero(Tail(seq)))

\* np.nanprod of a 1-d float sequence: the product with NaNs taken as one
RECURSIVE nanprod(_)
nanprod(seq) ==
    IF seq = <<>> THEN One
    ELSE RMul(IF Head(seq) = NaN THEN One ELSE Head(seq), nanprod(Tail(seq)))

\* np.nan_to_num: NaN becomes 0.0 in a float array; an int array is returned as is
nan_to_num(arr) ==
    IF arr.dtype = "int" THEN arr
    ELSE FloatArray(Arr([j \in 1..Len(arr.data) |->
                        IF arr.data[j] = NaN THEN Rat(0, 1) ELSE arr.data[j]]))

\* ndarray.astype(np.int): truncation of a float; of NaN, whatever the build does
astype_int(arr, nanInt) ==
    IF arr.dtype = "int" THEN arr
    ELSE IntArray(Arr([j \in 1..Len(arr.data) |->
                      IF arr.data[j] = NaN THEN nanInt
                      ELSE arr.data[j].num \div arr.data[j].den]))

\* argsort in descending order
\* the order numpy sorts floats by: ascending, NaN after every number
SortsBefore(a, b) == (a # NaN /\ b = NaN) \/ RLt(a, b)

argsort_descending(T) ==
    LET M == Len(T)
        rank == Arr([k \in 1..M |->
                    1 + Cardinality({j \in 1..M :
                            SortsBefore(T[k], T[j]) \/ (T[j] = T[k] /\ j < k)})])
    IN  Arr([p \in 1..M |-> CHOOSE k \in 1..M : rank[k] = p])

\* ndarray.argsort() of a float sequence: positions in ascending order of
\* value; equal values keep their index order (numpy sorts the short tables
\* that occur here by insertion)
argsort(T) ==
    LET M == Len(T)
        rank == Arr([k \in 1..M |->
                    1 + Cardinality({j \in 1..M :
                            SortsBefore(T[j], T[k]) \/ (T[j] = T[k] /\ j < k)})])
    IN  Arr([p \in 1..M |-> CHOOSE k \in 1..M : rank[k] = p])

\* np.argmin: the first position of the least element; of the first NaN
\* when there is one
argmin(d) ==
    IF \E p \in 1..Len(d) : d[p] = NaN
    THEN CHOOSE p \in 1..Len(d) :
            d[p] = NaN /\ \A q \in 1..(p - 1) : d[q] # NaN
    ELSE CHOOSE p \in 1..Len(d) :
            /\ \A q \in 1..Len(d) : RLe(d[p], d[q])
            /\ \A q \in 1..(p - 1) : RLt(d[p], d[q])

\* argmin of the signed difference T - t (np.abs left out)
argmin_signed(T, t) == argmin(Arr([p \in 1..Len(T) |-> RSub(T[p], t)]))

\* line 121: np.argmin(np.abs(T_config_table[:, 0] - t_des))
argmin_absdiff(T, t) == argmin(Arr([p \in 1..Len(T) |-> RAbs(RSub(T[p], t))]))

-----------------------------------------------------------------------------
(* calculator.py: in_out_combinations and its lru_cache *)

LruMaxSize == 32

\* itertools.product([np.nan, 1], repeat=num_blades) as an array: 2^n rows,
\* first blade varying slowest; NaN is "out", 1 is "in"
in_out_combinations(num_blades) ==
    Arr([k \in 1..Pow(2, num_blades) |->
        Arr([j \in 1..num_blades |->
            IF ((k - 1) \div Pow(2, num_blades - j)) % 2 = 1 THEN One ELSE NaN])])

\* the tuples with the last blade varying slowest
product_tuple_reversed(n, k) ==
    Arr([j \in 1..n |->
        IF ((k - 1) \div Pow(2, j - 1)) % 2 = 1 THEN One ELSE NaN])

\* the k-th tuple itertools.product([np.nan, 1], repeat=n) yields
product_tuple(n, k) ==
    Arr([j \in 1..n |->
        IF ((k - 1) \div Pow(2, n - j)) % 2 = 1 THEN One ELSE NaN])

CacheKeys(c) == {c[p].key : p \in 1..Len(c)}

\* the cache after a miss on n that computed value
lru_store(c, n, value) ==
    LET grown == Append(c, [key |-> n, value |-> value])
    IN  IF Len(grown) > LruMaxSize THEN Tail(grown) ELSE grown

\* what a call in_out_combinations(n) returns with the cache in state c:
\* the stored array on a hit, a fresh one on a miss
lru_value(c, n) ==
    IF n \in CacheKeys(c)
    THEN c[CHOOSE p \in 1..Len(c) : c[p].key = n].value
    ELSE in_out_combinations(n)

\* the cache after that call: the entry is moved (hit) or added (miss) at the
\* most recent end, and the least recent entry is dropped above maxsize
lru_after(c, n) ==
    LET entry == [key |-> n, value |-> lru_value(c, n)]
        rest == SelectSeq(c, LAMBDA e : e.key # n)
        grown == Append(rest, entry)
    IN  IF Len(grown) > LruMaxSize THEN Tail(grown) ELSE grown

-----------------------------------------------------------------------------
(* calculator.py: Config and find_configs *)

Config(all_t, filter_states, transmission) ==
    [all_transmissions |-> all_t,
     filter_states |-> filter_states,
     transmission |-> transmission]

\* T_table: the transmission of every row of the configuration table
T_table_of(all_t, config_table) ==
    Arr([k \in 1..Len(config_table) |-> nanprod(multiply(all_t, config_table[k]))])

\* line 134: min((i + 1, len(T_config_table) - 1))
next_index(i, last) == Min(i + 1, last)

\* the neighbour below position i, with the step taken upwards
prev_index_up(i, last) == Min(i + 1, last)

\* line 140: max((i - 1, 0))
prev_index(i, last) == Max(i - 1, 1)

\* find_configs from line 108 on, given the table line 104 obtained.
\* When none of the three comparisons of lines 129-139 holds (a NaN is
\* involved) the names of the return statement are unbound.
find_configs_with(config_table, all_t, target, nanInt) ==
    LET T_table == T_table_of(all_t, config_table)
        sort_indices == argsort(T_table)
        last == Len(sort_indices)
        \* column 0 of T_config_table; column 1 is sort_indices
        T_sorted == Arr([p \in 1..last |-> T_table[sort_indices[p]]])
        i == argmin_absdiff(T_sorted, target)
        closestRow == FloatArray(config_table[sort_indices[i]])
        T_closest == nanprod(multiply(all_t, closestRow.data))
        branch == IF REq(T_closest, target) THEN "=="
                  ELSE IF RLt(T_closest, target) THEN "<"
                  ELSE IF RLt(target, T_closest) THEN ">"
                  ELSE "unbound"
        rowHi == FloatArray(config_table[sort_indices[next_index(i, last)]])
        rowLo == FloatArray(config_table[sort_indices[prev_index(i, last)]])
        config_bestHigh ==
            CASE branch = "==" -> closestRow
              [] branch = "<" -> rowHi
              [] branch = ">" -> astype_int(closestRow, nanInt)
        config_bestLow ==
            CASE branch = "==" -> closestRow
              [] branch = "<" -> closestRow
              [] branch = ">" -> rowLo
        T_bestHigh ==
            CASE branch = "==" -> T_closest
              [] branch = "<" -> nanprod(multiply(all_t, rowHi.data))
              [] branch = ">" -> T_closest
        T_bestLow ==
            CASE branch = "==" -> T_closest
              [] branch = "<" -> T_closest
              [] branch = ">" -> nanprod(multiply(all_t, rowLo.data))
    IN  IF branch = "unbound" THEN Raised("UnboundLocalError")
        ELSE Returned(<<
            Config(all_t, astype_int(nan_to_num(config_bestLow), nanInt).data, T_bestLow),
            Config(all_t, astype_int(nan_to_num(config_bestHigh), nanInt).data, T_bestHigh) >>)

\* find_configs(all_transmissions, t_des) with the cache in state c
find_configs(c, all_t, target, nanInt) ==
    find_configs_with(lru_value(c, Len(all_t)), all_t, target, nanInt)

\* Memory.  in_out_combinations hands out the cached ndarray itself, and
\* config_table[k] (lines 124, 135, 142) is a view of its row k, not a copy.
\* The rows of config_table that config_bestLow and config_bestHigh are views
\* of when the return statement is reached; 0 stands for an array with a
\* buffer of its own (closest.astype(np.int), line 141).
find_configs_views(config_table, all_t, target) ==
    LET T_table == T_table_of(all_t, config_table)
        sort_indices == argsort(T_table)
        last == Len(sort_indices)
        T_sorted == Arr([p \in 1..last |-> T_table[sort_indices[p]]])
        i == argmin_absdiff(T_sorted, target)
        T_closest == T_sorted[i]
    IN  IF REq(T_closest, target)
        THEN [low |-> sort_indices[i], high |-> sort_indices[i]]
        ELSE IF RLt(T_closest, target)
        THEN [low |-> sort_indices[i], high |-> sort_indices[next_index(i, last)]]
        ELSE IF RLt(target, T_closest)
        THEN [low |-> sort_indices[prev_index(i, last)], high |-> 0]
        ELSE [low |-> 0, high |-> 0]

\* np.nan_to_num(x, copy=False): the zeros are written into x
nan_to_num_in_place(arr) == nan_to_num(arr)

\* what the buffer of x holds after np.nan_to_num(x) (lines 148, 151): the
\* default copy=True writes the zeros into a copy and leaves x as it was
nan_to_num_leaves(arr) == arr

\* a result that is still the view x
filter_states_view(row) == row

\* the buffer the result of np.nan_to_num(x).astype(np.int) lives in, for x a
\* view of row `row`: both calls allocate a new array (0)
filter_states_base(row) == 0

\* the cached table after find_configs has run on it
table_after(config_table, all_t, target) ==
    LET views == find_configs_views(config_table, all_t, target)
    IN  Arr([k \in 1..Len(config_table) |->
            IF k \in {views.low, views.high}
            THEN nan_to_num_leaves(FloatArray(config_table[k])).data
            ELSE config_table[k]])

\* the lru_cache after find_configs(all_t, target)
find_configs_cache(c, all_t, target) ==
    LET c1 == lru_after(c, Len(all_t))
    IN  Arr([p \in 1..Len(c1) |->
            IF c1[p].key = Len(all_t)
            THEN [key |-> c1[p].key,
                  value |-> table_after(c1[p].value, all_t, target)]
            ELSE c1[p]])

\* the cached rows the filter_states of the two returned Configs share memory with
find_configs_aliases(c, all_t, target) ==
    LET views == find_configs_views(lru_value(c, Len(all_t)), all_t, target)
    IN  {[key |-> Len(all_t), row |-> filter_states_base(r)] :
            r \in {views.low, views.high} \ {0}}
        \ {[key |-> Len(all_t), row |-> 0]}

\* get_best_config: the floor or the ceiling of find_configs; a mode given by
\* name is looked up in ConfigMode first
ConfigModeNames == {"Floor", "Ceiling"}
ConfigMode(name) == [kind |-> "ConfigMode", name |-> name]
StrMode(name) == [kind |-> "str", name |-> name]
\* get_best_config returning the floor whatever the mode
get_best_config_floor(c, all_t, target, mode, nanInt) ==
    LET configs == find_configs(c, all_t, target, nanInt)
    IN  IF configs.raised # NoError THEN configs
        ELSE Returned(configs.value[1])

get_best_config(c, all_t, target, mode, nanInt) ==
    LET m == IF mode.kind = "str" THEN ConfigMode(mode.name) ELSE mode
        configs == find_configs(c, all_t, target, nanInt)
    IN  IF mode.kind = "str" /\ mode.name \notin ConfigModeNames
        THEN Raised("KeyError")
        ELSE IF configs.raised # NoError THEN configs
        ELSE IF m = ConfigMode("Floor") THEN Returned(configs.value[1])
        ELSE Returned(configs.value[2])

\* the lru_cache after get_best_config: find_configs is not reached when the
\* mode lookup raises
get_best_config_cache(c, all_t, target, mode) ==
    IF mode.kind = "str" /\ mode.name \notin ConfigModeNames THEN c
    ELSE find_configs_cache(c, all_t, target)

-----------------------------------------------------------------------------
(* calculator.py: the energy grid and find_closest_energy *)

\* _ev_linear defaults: res=10 points per eV, dec=2 decimals
Res == 10
Dec == 2
\* energies are counted in units of 10^-Dec eV
EvUnit == Pow(10, Dec)

\* np.rint / np.around of the quotient n/d (d > 0): to nearest, ties to even
RoundHalfEven(n, d) ==
    LET f == n \div d
        r == n - f * d
    IN  IF 2 * r < d THEN f
        ELSE IF 2 * r > d THEN f + 1
        ELSE IF f % 2 = 0 THEN f ELSE f + 1

\* int(x) of the quotient n/d (d > 0): truncation toward zero
IntTrunc(n, d) == IF n >= 0 THEN n \div d ELSE -((-n) \div d)

\* _ev_linear(ev_low, ev_high): np.linspace over num points, rounded to Dec decimals
ev_linear(low, high) ==
    LET num == IntTrunc(high - low, EvUnit) * Res + 1
    IN  Arr([k \in 1..num |->
            IF num = 1 THEN low
            ELSE low + RoundHalfEven((k - 1) * (high - low), num - 1)])

\* _fill_data_linear(element, ev_low, ev_high): the raw f2 data interpolated
\* at new_range = _ev_linear(ev_low, ev_high, res=10); the raw data are not
\* modelled, each sample stands as the energy it was interpolated at
fill_data_linear(low, high) == ev_linear(low, high)

\* get_absorption_table(formula, ev_low, ev_high), lines 302-315: columns 0
\* and 1 of the table; an assignment of a column of another length raises
get_absorption_table(low, high) ==
    LET fs == fill_data_linear(low, high)
        eV_space == ev_linear(low, high)
    IN  IF Len(eV_space) # Len(fs) THEN Raised("ValueError")
        ELSE Returned([eV |-> eV_space, f2 |-> fs])

\* find_closest_energy(photon_energy, table); tbl is column 0 of the table.
\* closest_idx is the Python index: 0-based, -1 for "the last row".
find_closest_energy(pe, tbl) ==
    LET shape0 == Len(tbl)
        min_energy == tbl[1]
        max_energy == tbl[shape0]
        \* (pe - min) / ((max - min) / shape0), rounded by np.rint
        raw_idx == RoundHalfEven((pe - min_energy) * shape0, max_energy - min_energy)
        idx0 == IF raw_idx < 0 THEN 0 ELSE raw_idx
        closest_idx == IF idx0 > shape0 THEN -1 ELSE idx0
    IN  IF max_energy = min_energy
        THEN \* energy_increment is 0.0: the quotient is inf or nan, int() raises
             IF pe = min_energy THEN Raised("ValueError") ELSE Raised("OverflowError")
        ELSE IF closest_idx = -1 THEN Returned(<<tbl[shape0], closest_idx>>)
        ELSE IF closest_idx >= shape0 THEN Raised("IndexError")
        ELSE Returned(<<tbl[closest_idx + 1], closest_idx>>)

-----------------------------------------------------------------------------
(* satt_app.py: IOCMain *)

\* filters that are not stuck
working_filters(f) == {idx \in DOMAIN f : f[idx].is_stuck # "True"}

\* all_transmissions: NaN for every stuck filter
all_transmissions_of(f) ==
    Arr([j \in 1..Cardinality(DOMAIN f) |->
        IF j \in working_filters(f) THEN f[j].transmission ELSE NaN])

RECURSIVE ProductOver(_, _)
ProductOver(f, S) ==
    IF S = {} THEN One
    ELSE LET idx == CHOOSE x \in S : TRUE
         IN  RMul(f[idx].transmission, ProductOver(f, S \ {idx}))

\* t_calc: total transmission through all working filters
t_calc(f) == ProductOver(f, working_filters(f))

\* FilterGroup.set_photon_energy: the transmission of blade idx at an energy,
\* a fixed function of the blade's material and thickness and of the energy
\* (thin blade 1: 0.8 or 0.5; thick blade 2: 0.5 throughout)
transmission_at(idx, eV) ==
    IF idx = 1 /\ eV >= 50 * EvUnit THEN Rat(4, 5) ELSE Rat(1, 2)

-----------------------------------------------------------------------------
(* The inputs the model draws *)

\* blade transmissions 0.5 and 0.8
TVals == {Rat(1, 2), Rat(4, 5)}

\* transmission vectors: every vector up to MaxBlades over TVals and NaN, and
\* the all-unavailable vectors up to MaxStuckBlades
Vectors ==
    UNION {[1..n -> TVals \cup {NaN}] : n \in 0..MaxBlades}
    \cup {[j \in 1..n |-> NaN] : n \in 0..MaxStuckBlades}

Targets == {Rat(k, 10) : k \in 0..MaxTargetTenths}

\* the modes get_best_config is called with: members of ConfigMode, their
\* names, and a name that is no member
Modes ==
    {ConfigMode(n) : n \in ConfigModeNames}
    \cup {StrMode(n) : n \in ConfigModeNames \cup {"floor"}}

\* the arguments of the repeated calls: vectors of up to MaxCallBlades
\* blades of transmission 0.5, the last of them unavailable or not, and two
\* targets, one below and one above 0.5
CallVectors ==
    {[j \in 1..n |-> IF j > n - k THEN NaN ELSE Rat(1, 2)] :
        n \in 0..MaxCallBlades, k \in 0..1}
CallTargets == {Rat(3, 10), Rat(7, 10)}

\* the numbers of blades in_out_combinations is called with
ComboBlades == (0..MaxBlades) \cup {ManyBlades}
\* the model follows the enumeration of one call for at most this many tuples
MaxRows == Pow(2, MaxBlades)

\* the lower bound of the tables, 10 eV, and the upper bounds drawn
EvLow == 10 * EvUnit
EvHighs == {EvLow + EvUnit + q * (EvUnit \div 4) : q \in 0..MaxSpanQuarters}

\* the blades of the IOC
Blades == {1, 2}
\* DesiredTransmission values clients write (within the control limits 0..1)
DesiredValues == {Rat(3, 10), Rat(1, 2), Rat(7, 10)}
\* photon energies the beam line reports
ActualEnergies == {95 * EvUnit}

-----------------------------------------------------------------------------
(* Initial states *)

CalcIdle ==
    /\ all_transmissions = <<>>
    /\ t_des = Rat(1, 2)
    /\ nan_as_int = 0
    /\ result = NotCalled
    /\ cache = <<>>
    /\ pc = "idle"

EnergyIdle ==
    /\ ev_low = EvLow
    /\ ev_high = EvLow
    /\ table = <<>>
    /\ f2_column = <<>>
    /\ photon_energy = 0
    /\ closest = NotCalled
    /\ epc = "idle"

\* the PV values of SystemGroup as declared (lines 44-187)
SysInitFor(f) ==
    /\ filters = f
    /\ desired_transmission = Rat(1, 2)
    /\ calc_mode = "Floor"
    /\ best_config = [j \in Blades |-> 0]
    /\ best_config_error = Rat(1, 10)
    /\ calculated_transmission = Rat(1, 10)
    /\ energy_source = "Actual"
    /\ energy_actual = 0
    /\ energy_custom = 0
    /\ energy_calc = 0
    /\ rpc = "idle"
    /\ run_energy = 0
    /\ run_filter = 0
    /\ run_config = Config(<<>>, <<>>, One)
    /\ run_t_des = Rat(1, 2)
    /\ runs = 0

SysIdle == SysInitFor([idx \in Blades |-> [transmission |-> One, is_stuck |-> "False"]])

CallIdle ==
    /\ hit = FALSE
    /\ aliased = {}
    /\ call_mode = [kind |-> "ConfigMode", name |-> "Floor"]
    /\ best = NotCalled

ComboIdle ==
    /\ blades_arg = 0
    /\ tuples = <<>>
    /\ combos = NotCalled
    /\ cpc = "idle"

\* the alarms caproto gives a pvproperty, and the one the hooks raise
NoAlarm == [status |-> "NO_ALARM", severity |-> "NO_ALARM"]
LinkAlarm == [status |-> "LINK", severity |-> "MAJOR_ALARM"]

\* monitor_pvnames['motors']: one readback ('get') and one command ('set')
\* PV per blade; monitor_list is all of them
MotorPVs == {[list |-> l, blade |-> b] : l \in {"get", "set"}, b \in Blades}

\* SystemGroup as constructed: no hook has run, the PVs hold their declared
\* values (lines 123-138) and no alarm
MonIdle ==
    /\ mon_started = {}
    /\ all_status = [pv \in MotorPVs |-> FALSE]
    /\ conn_events = FALSE
    /\ active_alarm = NoAlarm
    /\ active_config = [b \in Blades |-> 0]
    /\ energy_alarm = NoAlarm

\* the channel-access clients that write ApplyConfiguration
Clients == {1, 2}

NoItem == [seq |-> 0, pv |-> 0, value |-> 0]
NoPutter == [pos |-> 0, config |-> <<>>, batch |-> <<>>]

\* SystemGroup after the apply_config startup hook (lines 307-324): the queue
\* exists and is empty, put_thread waits in get()
ApplyIdle ==
    /\ putters = [c \in Clients |-> NoPutter]
    /\ put_queue = <<>>
    /\ put_count = 0
    /\ true_writes = 0
    /\ thread_item = NoItem
    /\ thread_running = TRUE
    /\ last_delivered = 0
    /\ out_of_order = FALSE
    /\ raised_seq = 0

OtherIdle == CallIdle /\ ComboIdle /\ MonIdle /\ ApplyIdle

-----------------------------------------------------------------------------
(* Spec: one call of find_configs on drawn arguments, from a fresh process *)

Init ==
    /\ all_transmissions \in Vectors
    /\ t_des \in Targets
    /\ nan_as_int \in NanCastOutcomes
    /\ result = NotCalled
    /\ cache = <<>>
    /\ pc = "call"
    /\ EnergyIdle
    /\ SysIdle
    /\ OtherIdle

FindConfigs ==
    /\ pc = "call"
    /\ result' = find_configs(cache, all_transmissions, t_des, nan_as_int)
    /\ cache' = find_configs_cache(cache, all_transmissions, t_des)
    /\ pc' = "done"
    /\ UNCHANGED <<otherVars, all_transmissions, t_des, nan_as_int, energyVars, sysVars>>

\* one call of get_best_config on the same arguments and a drawn mode;
\* result holds what its call of find_configs returned (floor_config,
\* ceil_config)
GetBestConfigCall(m) ==
    /\ pc = "call"
    /\ call_mode' = m
    /\ best' = get_best_config(cache, all_transmissions, t_des, m, nan_as_int)
    /\ result' = IF get_best_config_cache(cache, all_transmissions, t_des, m) = cache
                 THEN NotCalled
                 ELSE find_configs(cache, all_transmissions, t_des, nan_as_int)
    /\ cache' = get_best_config_cache(cache, all_transmissions, t_des, m)
    /\ pc' = "best"
    /\ UNCHANGED <<all_transmissions, t_des, nan_as_int, hit, aliased,
                   comboVars, monVars, applyVars, energyVars, sysVars>>

Next ==
    \/ FindConfigs
    \/ \E m \in Modes : GetBestConfigCall(m)

Spec == Init /\ [][Next]_vars

-----------------------------------------------------------------------------
(* SpecCalls: a process calling find_configs again and again on drawn       *)
(* arguments; the lru_cache of in_out_combinations lives as long as the      *)
(* process                                                                   *)

InitCalls ==
    /\ all_transmissions = <<>>
    /\ t_des = Rat(1, 2)
    /\ nan_as_int \in NanCastOutcomes
    /\ result = NotCalled
    /\ cache = <<>>
    /\ pc = "idle"
    /\ EnergyIdle
    /\ SysIdle
    /\ OtherIdle

CallFindConfigs(v, t) ==
    /\ all_transmissions' = v
    /\ t_des' = t
    /\ result' = find_configs(cache, v, t, nan_as_int)
    /\ cache' = find_configs_cache(cache, v, t)
    /\ aliased' = find_configs_aliases(cache, v, t)
    /\ hit' = (Len(v) \in CacheKeys(cache))
    /\ pc' = "done"
    /\ UNCHANGED <<nan_as_int, call_mode, best, comboVars, monVars, applyVars, energyVars,
                   sysVars>>

NextCalls ==
    \E v \in CallVectors, t \in CallTargets : CallFindConfigs(v, t)

SpecCalls == InitCalls /\ [][NextCalls]_vars

-----------------------------------------------------------------------------
(* SpecCombos: calls of in_out_combinations, one after the other, with the   *)
(* list of tuples built one tuple per step                                   *)

InitCombos ==
    /\ CalcIdle
    /\ EnergyIdle
    /\ SysIdle
    /\ OtherIdle

\* the call: the lru_cache wrapper looks the argument up; on a hit it returns
\* the stored array, on a miss it enters the function body
CallInOutCombinations(n) ==
    /\ cpc \in {"idle", "done"}
    /\ blades_arg' = n
    /\ tuples' = <<>>
    /\ hit' = (n \in CacheKeys(cache))
    /\ IF n \in CacheKeys(cache)
       THEN /\ combos' = Returned(lru_value(cache, n))
            /\ cache' = lru_after(cache, n)
            /\ cpc' = "done"
       ELSE /\ combos' = NotCalled
            /\ cache' = cache
            /\ cpc' = "product"
    /\ UNCHANGED <<all_transmissions, t_des, nan_as_int, result, pc, aliased,
                   call_mode, best, monVars, applyVars, energyVars,
                   sysVars>>

\* list(itertools.product([np.nan, 1], repeat=num_blades)) takes one more tuple
EnumerateRow ==
    /\ cpc = "product"
    /\ Len(tuples) < Pow(2, blades_arg)
    /\ Len(tuples) < MaxRows
    /\ tuples' = Append(tuples, product_tuple(blades_arg, Len(tuples) + 1))
    /\ UNCHANGED <<calcVars, callVars, blades_arg, combos, cpc, monVars,
                   applyVars, energyVars, sysVars>>

\* the product is exhausted: np.asarray(..) is returned and stored in the cache
ReturnCombinations ==
    /\ cpc = "product"
    /\ Len(tuples) = Pow(2, blades_arg)
    /\ combos' = Returned(tuples)
    /\ cache' = lru_store(cache, blades_arg, tuples)
    /\ cpc' = "done"
    /\ UNCHANGED <<all_transmissions, t_des, nan_as_int, result, pc, callVars,
                   blades_arg, tuples, monVars, applyVars, energyVars,
                   sysVars>>

NextCombos ==
    \/ \E n \in ComboBlades : CallInOutCombinations(n)
    \/ EnumerateRow
    \/ ReturnCombinations

SpecCombos == InitCombos /\ [][NextCombos]_vars

-----------------------------------------------------------------------------
(* SpecEnergy: an absorption table is built by get_absorption_table and     *)
(* find_closest_energy is called on it once                                  *)

InitEnergy ==
    /\ ev_low = EvLow
    /\ ev_high \in EvHighs
    /\ table = <<>>
    /\ f2_column = <<>>
    /\ photon_energy \in (ev_low - PhotonMargin)..(ev_high + PhotonMargin)
    /\ closest = NotCalled
    /\ epc = "build"
    /\ CalcIdle
    /\ SysIdle
    /\ OtherIdle

GetAbsorptionTable ==
    /\ epc = "build"
    /\ LET built == get_absorption_table(ev_low, ev_high)
       IN  IF built.raised = NoError
           THEN /\ table' = built.value.eV
                /\ f2_column' = built.value.f2
                /\ epc' = "call"
           ELSE /\ UNCHANGED <<table, f2_column>>
                /\ epc' = "failed"
    /\ UNCHANGED <<otherVars, ev_low, ev_high, photon_energy, closest, calcVars,
                   sysVars>>

FindClosestEnergy ==
    /\ epc = "call"
    /\ closest' = find_closest_energy(photon_energy, table)
    /\ epc' = "done"
    /\ UNCHANGED <<otherVars, ev_low, ev_high, table, f2_column, photon_energy,
                   calcVars, sysVars>>

NextEnergy == GetAbsorptionTable \/ FindClosestEnergy

SpecEnergy == InitEnergy /\ [][NextEnergy]_vars

-----------------------------------------------------------------------------
(* SpecSys: SystemGroup.run_calculation as a coroutine, one action per       *)
(* stretch of code between two awaits, interleaved with the writes of        *)
(* channel-access clients and monitors, which the event loop serves while    *)
(* run_calculation is suspended                                              *)

InitSys ==
    /\ \E f \in [Blades -> [transmission : {Rat(1, 2)}, is_stuck : {"False", "True"}]] :
            SysInitFor(f)
    /\ nan_as_int \in NanCastOutcomes
    /\ all_transmissions = <<>>
    /\ t_des = Rat(1, 2)
    /\ result = NotCalled
    /\ cache = <<>>
    /\ pc = "idle"
    /\ EnergyIdle
    /\ OtherIdle

sysLocals == <<run_energy, run_filter, run_config, run_t_des, runs>>
sysPVs == <<desired_transmission, calc_mode, best_config, best_config_error,
            calculated_transmission, energy_source, energy_actual,
            energy_custom, energy_calc>>

\* the run putter (lines 294-302) entering run_calculation up to its first
\* await (lines 254-259); block_on_reentry keeps a second caller out while a
\* run is in progress
RunPut(value) ==
    /\ rpc = "idle"
    /\ IF value = "False"
       THEN UNCHANGED <<rpc, run_energy, runs>>
       ELSE /\ runs < MaxRuns
            /\ runs' = runs + 1
            /\ run_energy' = IF energy_source = "Actual" THEN energy_actual
                             ELSE energy_custom
            /\ rpc' = "energy_calc.write"
    /\ UNCHANGED <<otherVars, filters, sysPVs, run_filter, run_config, run_t_des,
                   calcVars, energyVars>>

\* await self.energy_calc.write(energy)
WriteEnergyCalc ==
    /\ rpc = "energy_calc.write"
    /\ energy_calc' = run_energy
    /\ run_filter' = 1
    /\ rpc' = "set_photon_energy"
    /\ UNCHANGED <<otherVars, filters, desired_transmission, calc_mode, best_config,
                   best_config_error, calculated_transmission, energy_source,
                   energy_actual, energy_custom, run_energy, run_config,
                   run_t_des, runs, calcVars, energyVars>>

\* await filter.set_photon_energy(energy), once per filter (lines 263-264):
\* the filter's transmission at that energy
SetPhotonEnergy ==
    /\ rpc = "set_photon_energy"
    /\ run_filter \in Blades
    /\ filters' = [filters EXCEPT ![run_filter].transmission =
                                        transmission_at(run_filter, run_energy)]
    /\ run_filter' = run_filter + 1
    /\ UNCHANGED <<otherVars, sysPVs, rpc, run_energy, run_config, run_t_des, runs,
                   calcVars, energyVars>>

\* await self.calculated_transmission.write(...) and the 3-omega write after
\* it (lines 266-271)
WriteCalculatedTransmission ==
    /\ rpc = "set_photon_energy"
    /\ run_filter \notin Blades
    /\ calculated_transmission' = t_calc(filters)
    /\ rpc' = "get_best_config"
    /\ UNCHANGED <<otherVars, filters, desired_transmission, calc_mode, best_config,
                   best_config_error, energy_source, energy_actual,
                   energy_custom, energy_calc, sysLocals, calcVars, energyVars>>

\* lines 274-278: the search, on the values the PVs hold when it is reached;
\* an exception ends the run in the handler of the run putter (lines 301-302)
GetBestConfig ==
    /\ rpc = "get_best_config"
    /\ LET got == get_best_config(cache, all_transmissions_of(filters),
                                  desired_transmission, StrMode(calc_mode),
                                  nan_as_int)
       IN  IF got.raised = NoError
           THEN /\ run_t_des' = desired_transmission
                /\ run_config' = got.value
                /\ rpc' = "best_config.write"
                /\ UNCHANGED <<run_energy, run_filter, runs>>
           ELSE /\ rpc' = "idle"
                /\ run_energy' = 0
                /\ run_filter' = 0
                /\ UNCHANGED <<run_config, run_t_des, runs>>
    /\ cache' = find_configs_cache(cache, all_transmissions_of(filters),
                                    desired_transmission)
    /\ UNCHANGED <<otherVars, filters, sysPVs, all_transmissions, t_des, nan_as_int,
                   result, pc, energyVars>>

\* await self.best_config.write(config.filter_states)
WriteBestConfig ==
    /\ rpc = "best_config.write"
    /\ best_config' = [j \in Blades |-> run_config.filter_states[j]]
    /\ rpc' = "best_config_error.write"
    /\ UNCHANGED <<otherVars, filters, desired_transmission, calc_mode, best_config_error,
                   calculated_transmission, energy_source, energy_actual,
                   energy_custom, energy_calc, sysLocals, calcVars, energyVars>>

\* the error written at line 280-282
config_error(config, desired) == RSub(config.transmission, desired)

\* await self.best_config_error.write(config.transmission - desired.value)
WriteBestConfigError ==
    /\ rpc = "best_config_error.write"
    /\ best_config_error' = config_error(run_config, desired_transmission)
    /\ rpc' = "log"
    /\ UNCHANGED <<otherVars, filters, desired_transmission, calc_mode, best_config,
                   calculated_transmission, energy_source, energy_actual,
                   energy_custom, energy_calc, sysLocals, calcVars, energyVars>>

\* lines 283-292: the log line; run_calculation returns and its locals go
RunReturn ==
    /\ rpc = "log"
    /\ rpc' = "idle"
    /\ run_energy' = 0
    /\ run_filter' = 0
    /\ run_config' = Config(<<>>, <<>>, One)
    /\ run_t_des' = Rat(1, 2)
    /\ UNCHANGED <<otherVars, filters, sysPVs, runs, calcVars, energyVars>>

\* a client write to DesiredTransmission
PutDesiredTransmission(v) ==
    /\ desired_transmission' = v
    /\ UNCHANGED <<otherVars, filters, calc_mode, best_config, best_config_error,
                   calculated_transmission, energy_source, energy_actual,
                   energy_custom, energy_calc, rpc, sysLocals, calcVars,
                   energyVars>>

\* a client write to CalcMode
PutCalcMode(m) ==
    /\ calc_mode' = m
    /\ UNCHANGED <<otherVars, filters, desired_transmission, best_config, best_config_error,
                   calculated_transmission, energy_source, energy_actual,
                   energy_custom, energy_calc, rpc, sysLocals, calcVars,
                   energyVars>>

\* energy_actual startup, lines 241-248: a monitor update of the beam energy
EnergyActualUpdate(eV) ==
    /\ energy_actual # eV
    /\ energy_actual' = eV
    /\ UNCHANGED <<otherVars, filters, desired_transmission, calc_mode, best_config,
                   best_config_error, calculated_transmission, energy_source,
                   energy_custom, energy_calc, rpc, sysLocals, calcVars,
                   energyVars>>

\* a filter becomes stuck or is released (the is_stuck PV of its group)
PutIsStuck(idx, v) ==
    /\ filters' = [filters EXCEPT ![idx].is_stuck = v]
    /\ UNCHANGED <<otherVars, sysPVs, rpc, sysLocals, calcVars, energyVars>>

NextSys ==
    \/ \E value \in {"False", "True"} : RunPut(value)
    \/ WriteEnergyCalc
    \/ SetPhotonEnergy
    \/ WriteCalculatedTransmission
    \/ GetBestConfig
    \/ WriteBestConfig
    \/ WriteBestConfigError
    \/ RunReturn
    \/ \E v \in DesiredValues : PutDesiredTransmission(v)
    \/ \E m \in ConfigModeNames : PutCalcMode(m)
    \/ \E eV \in ActualEnergies : EnergyActualUpdate(eV)
    \/ \E idx \in Blades, v \in {"False", "True"} : PutIsStuck(idx, v)

SpecSys == InitSys /\ [][NextSys]_vars

-----------------------------------------------------------------------------
(* SpecMon: the startup hooks of active_config and energy_actual, each a    *)
(* loop over the events of monitor_pvs.  The body run for one event is one   *)
(* action: nothing else reads or writes what it touches.                     *)

InitMon ==
    /\ CalcIdle
    /\ EnergyIdle
    /\ SysIdle
    /\ OtherIdle

\* STATE_FROM_MOTOR.get(value, value)
state_from_motor(value) ==
    CASE value = 0 -> 0
      [] value = 1 -> 0
      [] value = 2 -> 1
      [] OTHER -> value

\* the values a motor readback PV reports
MotorValues == 0..3

\* active_config startup up to the monitor loop, lines 191-194 and 206
ActiveConfigStartup ==
    /\ "active_config" \notin mon_started
    /\ mon_started' = mon_started \cup {"active_config"}
    /\ all_status' = [pv \in MotorPVs |-> FALSE]
    /\ UNCHANGED <<conn_events, active_alarm, active_config, energy_alarm,
                   callVars, comboVars, applyVars, calcVars, energyVars,
                   sysVars>>

\* a 'connection' event of a motor PV: update_connection_status, lines 196-204
MotorConnectionEvent(pv, status) ==
    /\ "active_config" \in mon_started
    /\ LET now == [all_status EXCEPT ![pv] = (status = "connected")]
           alarm == IF \A q \in MotorPVs : now[q] THEN NoAlarm ELSE LinkAlarm
       IN  /\ all_status' = now
           /\ active_alarm' = IF active_alarm.status # alarm.status THEN alarm
                              ELSE active_alarm
    /\ conn_events' = TRUE
    /\ UNCHANGED <<mon_started, active_config, energy_alarm, callVars,
                   comboVars, applyVars, calcVars, energyVars, sysVars>>

\* a value event of the readback PV of a blade, lines 212-220
MotorValueEvent(b, value) ==
    /\ "active_config" \in mon_started
    /\ all_status[[list |-> "get", blade |-> b]]
    /\ active_config' = [active_config EXCEPT ![b] = state_from_motor(value)]
    /\ UNCHANGED <<mon_started, all_status, conn_events, active_alarm,
                   energy_alarm, callVars, comboVars, applyVars, calcVars,
                   energyVars, sysVars>>

\* energy_actual startup up to the monitor loop, lines 225-234: the alarm is
\* raised before any event
EnergyActualStartup ==
    /\ "energy_actual" \notin mon_started
    /\ mon_started' = mon_started \cup {"energy_actual"}
    /\ energy_alarm' = LinkAlarm
    /\ UNCHANGED <<all_status, conn_events, active_alarm, active_config,
                   callVars, comboVars, applyVars, calcVars, energyVars,
                   sysVars>>

\* a 'connection' event of the energy PV, lines 236-239
EnergyConnectionEvent(status) ==
    /\ "energy_actual" \in mon_started
    /\ energy_alarm' = IF status = "connected" THEN NoAlarm ELSE LinkAlarm
    /\ UNCHANGED <<mon_started, all_status, conn_events, active_alarm,
                   active_config, callVars, comboVars, applyVars, calcVars,
                   energyVars, sysVars>>

ConnectionStates == {"connected", "disconnected"}

NextMon ==
    \/ ActiveConfigStartup
    \/ \E pv \in MotorPVs, status \in ConnectionStates :
            MotorConnectionEvent(pv, status)
    \/ \E b \in Blades, value \in MotorValues : MotorValueEvent(b, value)
    \/ EnergyActualStartup
    \/ \E status \in ConnectionStates : EnergyConnectionEvent(status)

SpecMon == InitMon /\ [][NextMon]_vars

-----------------------------------------------------------------------------
(* SpecApply: the apply_config putter, one action per stretch between the   *)
(* awaits of async_put, run for several clients at once, and put_thread,     *)
(* which takes the items off the queue and writes them to the motor PVs      *)

\* STATE_TO_MOTOR.get(value, value) without the table
state_to_motor_same(value) == value

\* STATE_TO_MOTOR.get(value, value)
state_to_motor(value) ==
    CASE value = 0 -> 1
      [] value = 1 -> 2
      [] OTHER -> value

\* a put_thread without the try/except: it ends with the first write that raises
thread_survives_ok(ok) == ok

\* whether put_thread stays in its loop after pv.write([value]): an
\* Exception is caught and logged (lines 312-315)
thread_survives(ok) == TRUE

\* the values run_calculation publishes in best_config: the filter_states of
\* the searches over the blades of the IOC, each working or stuck
ApplyConfigs ==
    {[j \in Blades |-> 0]} \cup
    {get_best_config(<<>>, all_transmissions_of(f), t, StrMode(m), k).value.filter_states :
        f \in [Blades -> [transmission : {Rat(1, 2)}, is_stuck : {"False", "True"}]],
        t \in DesiredValues, m \in ConfigModeNames, k \in NanCastOutcomes}

sysOther == <<filters, desired_transmission, calc_mode, best_config_error,
              calculated_transmission, energy_source, energy_actual,
              energy_custom, energy_calc, rpc, run_energy, run_filter,
              run_config, run_t_des, runs>>

InitApply ==
    /\ CalcIdle
    /\ EnergyIdle
    /\ SysIdle
    /\ OtherIdle

\* run_calculation publishing a configuration (line 279)
BestConfigWrite(cfg) ==
    /\ best_config # cfg
    /\ best_config' = cfg
    /\ UNCHANGED <<sysOther, applyVars, callVars, comboVars, monVars, calcVars,
                   energyVars>>

\* the putter called for a write of ApplyConfiguration by client c, up to its
\* first await (lines 327-332): 'False' returns, 'True' starts the zip over
\* the value best_config has now
ApplyPut(c, value) ==
    /\ putters[c].pos = 0
    /\ IF value = "False"
       THEN UNCHANGED <<putters, true_writes>>
       ELSE /\ true_writes < MaxApplyWrites
            /\ true_writes' = true_writes + 1
            /\ putters' = [putters EXCEPT
                              ![c] = [pos |-> 1, config |-> best_config, batch |-> <<>>]]
    /\ UNCHANGED <<put_queue, put_count, thread_item, thread_running,
                   last_delivered, out_of_order, raised_seq, sysVars, callVars,
                   comboVars, monVars, calcVars, energyVars>>

\* await self._pv_put_queue.async_put((set_pv, STATE_TO_MOTOR.get(value, value)))
\* for the next pair of the zip (lines 331-333)
ApplyEnqueue(c) ==
    /\ putters[c].pos > 0
    /\ LET p == putters[c]
           item == [seq |-> put_count + 1, pv |-> p.pos,
                    value |-> state_to_motor(p.config[p.pos])]
       IN  /\ put_queue' = Append(put_queue, item)
           /\ put_count' = put_count + 1
           /\ putters' = [putters EXCEPT
                 ![c] = [pos |-> IF p.pos = Len(p.config) THEN 0 ELSE p.pos + 1,
                         config |-> p.config,
                         batch |-> Append(p.batch, [pv |-> item.pv, value |-> item.value])]]
    /\ UNCHANGED <<true_writes, thread_item, thread_running, last_delivered,
                   out_of_order, raised_seq, sysVars, callVars, comboVars,
                   monVars, calcVars, energyVars>>

\* put_thread: pv, value = self._pv_put_queue.get() (line 311)
ThreadGet ==
    /\ thread_running
    /\ thread_item = NoItem
    /\ put_queue # <<>>
    /\ thread_item' = Head(put_queue)
    /\ put_queue' = Tail(put_queue)
    /\ out_of_order' = (out_of_order \/ Head(put_queue).seq # last_delivered + 1)
    /\ UNCHANGED <<putters, put_count, true_writes, thread_running,
                   last_delivered, raised_seq, sysVars, callVars, comboVars,
                   monVars, calcVars, energyVars>>

\* put_thread: pv.write([value]), which returns (ok) or raises (lines 312-315)
ThreadWrite(ok) ==
    /\ thread_running
    /\ thread_item # NoItem
    /\ last_delivered' = thread_item.seq
    /\ raised_seq' = IF ok THEN raised_seq ELSE thread_item.seq
    /\ thread_item' = NoItem
    /\ thread_running' = thread_survives(ok)
    /\ UNCHANGED <<putters, put_queue, put_count, true_writes, out_of_order,
                   sysVars, callVars, comboVars, monVars, calcVars, energyVars>>

NextApply ==
    \/ \E cfg \in ApplyConfigs : BestConfigWrite(cfg)
    \/ \E c \in Clients, value \in {"False", "True"} : ApplyPut(c, value)
    \/ \E c \in Clients : ApplyEnqueue(c)
    \/ ThreadGet
    \/ \E ok \in BOOLEAN : ThreadWrite(ok)

SpecApply == InitApply /\ [][NextApply]_vars

-----------------------------------------------------------------------------
(* Properties of find_configs (Spec) *)

Called == pc = "done"
Floor == result.value[1]
Ceiling == result.value[2]

Available(all_t) == {j \in 1..Len(all_t) : all_t[j] # NaN}

\* the product of the transmissions of the blades in S
RECURSIVE BladeProduct(_, _)
BladeProduct(all_t, S) ==
    IF S = {} THEN One
    ELSE LET j == CHOOSE x \in S : TRUE
         IN  RMul(all_t[j], BladeProduct(all_t, S \ {j}))

\* the total transmissions the available blades can be combined to
Achievable(all_t) == {BladeProduct(all_t, S) : S \in SUBSET Available(all_t)}

\* the transmissions find_configs computes, one per combination
TableValues(all_t) ==
    LET T == T_table_of(all_t, in_out_combinations(Len(all_t)))
    IN  {T[k] : k \in 1..Len(T)}

StrictlyInside(all_t, t) ==
    /\ \E a \in Achievable(all_t) : RLt(a, t)
    /\ \E a \in Achievable(all_t) : RLt(t, a)

NoneBetween(all_t, lo, hi) ==
    \A a \in Achievable(all_t) : ~(RLt(lo, a) /\ RLt(a, hi))

\* C1: with at least one available blade and the target strictly between the
\* smallest and the largest achievable transmission, floor <= target <=
\* ceiling, and floor and ceiling are neighbours among the achievable values
C1_MonotonicBracket ==
    (/\ Called
     /\ Available(all_transmissions) # {}
     /\ StrictlyInside(all_transmissions, t_des))
    => /\ result.raised = NoError
       /\ RLe(Floor.transmission, t_des)
       /\ RLe(t_des, Ceiling.transmission)
       /\ Floor.transmission \in Achievable(all_transmissions)
       /\ Ceiling.transmission \in Achievable(all_transmissions)
       /\ NoneBetween(all_transmissions, Floor.transmission, Ceiling.transmission)

\* C2: in both returned configurations every unavailable blade has state 0
C2_UnavailableRenderedZero ==
    (Called /\ result.raised = NoError) =>
        \A j \in 1..Len(all_transmissions) :
            all_transmissions[j] = NaN =>
                /\ Floor.filter_states[j] = 0
                /\ Ceiling.filter_states[j] = 0

\* C4: a target equal to the transmission of some combination gives floor and
\* ceiling as one and the same configuration, of exactly that transmission
C4_ExactMatchCollapse ==
    (Called /\ t_des \in Achievable(all_transmissions))
    => /\ result.raised = NoError
       /\ Floor = Ceiling
       /\ Floor.transmission = t_des

\* an exact match that is neither the smallest nor the largest achievable value
C4_Witness ==
    /\ Called
    /\ Len(all_transmissions) >= 2
    /\ t_des \in Achievable(all_transmissions)
    /\ t_des # One
    /\ \E a \in Achievable(all_transmissions) : RLt(a, t_des)
    /\ result.raised = NoError
    /\ Floor = Ceiling

Scenario5 ==
    /\ all_transmissions = <<Rat(1, 2), Rat(4, 5), NaN>>
    /\ t_des = Rat(3, 10)

Scenario5Set == {One, Rat(1, 2), Rat(4, 5), Rat(2, 5)}

\* C5 as stated: for [0.5, 0.8, unavailable] and target 0.3 the achievable
\* set is {1, 0.5, 0.8, 0.4}, the floor has 0.4 and the ceiling has 0.5
C5_ScenarioAsStated ==
    (Called /\ Scenario5)
    => /\ result.raised = NoError
       /\ TableValues(all_transmissions) = Scenario5Set
       /\ Floor.transmission = Rat(2, 5)
       /\ Ceiling.transmission = Rat(1, 2)

\* C5 amended: for [0.5, 0.8, unavailable] and target 0.3 the achievable set
\* is {1, 0.5, 0.8, 0.4}; the target lies below it, and floor and ceiling
\* both have the smallest achievable transmission, 0.4
C5_ScenarioBothSmallest ==
    (Called /\ Scenario5)
    => /\ result.raised = NoError
       /\ TableValues(all_transmissions) = Scenario5Set
       /\ Floor.transmission = Rat(2, 5)
       /\ Ceiling.transmission = Rat(2, 5)

\* the scenario has been computed
C5_Witness == Called /\ Scenario5 /\ result.raised = NoError

\* C6: the transmission computed for a combination is the product over the
\* blades that are marked in and available, and the set of computed
\* transmissions equals that of the vector with the unavailable blades removed
C6_UnavailableExcluded ==
    Called =>
        LET all_t == all_transmissions
            rows == in_out_combinations(Len(all_t))
            T == T_table_of(all_t, rows)
            kept == SelectSeq(all_t, LAMBDA x : x # NaN)
        IN  /\ result.raised = NoError
            /\ \A k \in 1..Len(rows) :
                  T[k] = BladeProduct(all_t,
                            {j \in Available(all_t) : rows[k][j] = One})
            /\ TableValues(all_t) = TableValues(kept)
            /\ {Floor.transmission, Ceiling.transmission} \subseteq TableValues(kept)

\* a vector mixing unavailable and available blades, with a proper bracket
C6_Witness ==
    /\ Called
    /\ \E j \in 1..Len(all_transmissions) : all_transmissions[j] = NaN
    /\ Cardinality(Available(all_transmissions)) >= 2
    /\ result.raised = NoError
    /\ RLt(Floor.transmission, Ceiling.transmission)

C9_TwoConfigsOrdered ==
    (Called /\ Len(all_transmissions) >= 1)
    => /\ result.raised = NoError
       /\ Len(result.value) = 2
       /\ RLe(Floor.transmission, Ceiling.transmission)

\* a call that returned a floor strictly below and a ceiling strictly above
C9_Witness ==
    /\ Called
    /\ Len(all_transmissions) >= 1
    /\ result.raised = NoError
    /\ RLt(Floor.transmission, t_des)
    /\ RLt(t_des, Ceiling.transmission)

AllUnavailable5 ==
    /\ Len(all_transmissions) = 5
    /\ \A j \in 1..5 : all_transmissions[j] = NaN

\* C10: with five blades, all unavailable, every combination has
\* transmission 1 and floor and ceiling both report 1, whatever the target
C10_AllUnavailable ==
    (Called /\ AllUnavailable5)
    => /\ result.raised = NoError
       /\ TableValues(all_transmissions) = {One}
       /\ Floor.transmission = One
       /\ Ceiling.transmission = One

\* five unavailable blades and a target below full transmission
C10_Witness ==
    Called /\ AllUnavailable5 /\ RLt(t_des, One) /\ result.raised = NoError

\* a row of the combination table as in/out states: 1 for in, 0 for out
Rendered(row) == Arr([j \in 1..Len(row) |-> IF row[j] = One THEN 1 ELSE 0])

\* C16: with the combinations in ascending order of transmission and i the
\* closest one, a closest transmission below the target gives floor = the
\* closest configuration and ceiling = the next one (the last one at most); a
\* closest transmission above the target gives ceiling = the closest
\* configuration and floor = the previous one (the first one at least).  So
\* a target below the smallest achievable transmission gives the smallest to
\* both, and a target above the largest gives the largest to both.
C16_NeighbourSelection ==
    (Called /\ result.raised = NoError) =>
        LET all_t == all_transmissions
            config_table == in_out_combinations(Len(all_t))
            T_table == T_table_of(all_t, config_table)
            sort_indices == argsort(T_table)
            last == Len(sort_indices)
            T_sorted == Arr([p \in 1..last |-> T_table[sort_indices[p]]])
            i == argmin_absdiff(T_sorted, t_des)
            ConfigAt(p) == Config(all_t, Rendered(config_table[sort_indices[p]]),
                                  T_sorted[p])
        IN  /\ RLt(T_sorted[i], t_des) =>
                /\ Floor = ConfigAt(i)
                /\ Ceiling = ConfigAt(Min(i + 1, last))
            /\ RLt(t_des, T_sorted[i]) =>
                /\ Ceiling = ConfigAt(i)
                /\ Floor = ConfigAt(Max(i - 1, 1))
            /\ (\A a \in Achievable(all_t) : RLt(t_des, a)) =>
                /\ Floor.transmission = T_sorted[1]
                /\ Ceiling.transmission = T_sorted[1]
            /\ (\A a \in Achievable(all_t) : RLt(a, t_des)) =>
                /\ Floor.transmission = T_sorted[last]
                /\ Ceiling.transmission = T_sorted[last]

\* C13: get_best_config returns the floor configuration of find_configs for
\* the mode Floor and the ceiling configuration for the mode Ceiling, given
\* as a ConfigMode member or as its name, and does nothing else: the cache is
\* left as find_configs leaves it
C13_ModeProjection ==
    (pc = "best" /\ call_mode.name \in ConfigModeNames)
    => /\ result.raised = NoError
       /\ best = Returned(IF call_mode.name = "Floor" THEN Floor ELSE Ceiling)
       /\ cache = find_configs_cache(<<>>, all_transmissions, t_des)

\* the mode given by name, selecting a ceiling that differs from the floor
C13_Witness ==
    /\ pc = "best"
    /\ call_mode = StrMode("Ceiling")
    /\ result.raised = NoError
    /\ Floor.transmission # Ceiling.transmission
    /\ best = Returned(Ceiling)

-----------------------------------------------------------------------------
(* Properties of repeated calls (SpecCalls) *)

C20_CacheUnchanged ==
    pc = "done" =>
        /\ \A p \in 1..Len(cache) :
              cache[p].value = in_out_combinations(cache[p].key)
        /\ aliased = {}
        /\ result.raised = NoError
        /\ Floor.all_transmissions = all_transmissions
        /\ Ceiling.all_transmissions = all_transmissions

\* a call on a cached table whose floor and ceiling were both taken as views
\* of rows of the table, one of them with a blade out
C20_Witness ==
    /\ pc = "done"
    /\ hit
    /\ result.raised = NoError
    /\ RLt(Floor.transmission, t_des)
    /\ \E j \in 1..Len(all_transmissions) : Ceiling.filter_states[j] = 0

-----------------------------------------------------------------------------
(* Properties of in_out_combinations (SpecCombos) *)

\* lexicographic order of two rows, first blade most significant, out before in
RowLess(a, b) ==
    \E j \in 1..Len(a) :
        /\ \A i \in 1..(j - 1) : a[i] = b[i]
        /\ a[j] = NaN
        /\ b[j] = One

C15_TooManyBladesFailsFast ==
    blades_arg > 24 =>
        /\ tuples = <<>>
        /\ cpc = "done" => combos.raised = "TooManyBlades"

-----------------------------------------------------------------------------
(* Properties of find_closest_energy (SpecEnergy) *)

\* C3: at or above the largest tabulated energy the call returns the last
\* tabulated energy with the last valid index and raises nothing
C3_ClampAtMax ==
    (epc = "done" /\ photon_energy >= table[Len(table)])
    => closest = Returned(<<table[Len(table)], Len(table) - 1>>)

\* C11: for a photon energy within [eV_min, eV_max] of the table the call
\* returns the index of the grid sample nearest to the photon energy (least
\* absolute difference), and that sample's energy
C11_NearestSample ==
    (/\ epc = "done"
     /\ photon_energy >= table[1]
     /\ photon_energy <= table[Len(table)])
    => /\ closest.raised = NoError
       /\ closest.value[2] + 1 \in 1..Len(table)
       /\ closest.value[1] = table[closest.value[2] + 1]
       /\ \A k \in 1..Len(table) :
             Abs(closest.value[1] - photon_energy) <= Abs(table[k] - photon_energy)

\* C17: the energy grid of a built table has
\* floor((ev_high - ev_low) * res) + 1 points for every ev_low < ev_high,
\* whole number of eV apart or not, and the f2 column has as many
C17_GridLength ==
    (epc \in {"call", "done"} /\ ev_low < ev_high)
    => /\ Len(table) = ((ev_high - ev_low) * Res) \div EvUnit + 1
       /\ Len(f2_column) = Len(table)

-----------------------------------------------------------------------------
(* Properties of SystemGroup.run_calculation (SpecSys) *)

\* C8: when a run has published its error, the error is the transmission of
\* the published configuration minus the desired transmission the search of
\* that run was given
C8_ErrorOfTheSearch ==
    rpc = "log" =>
        /\ best_config = [j \in Blades |-> run_config.filter_states[j]]
        /\ best_config_error = RSub(run_config.transmission, run_t_des)

-----------------------------------------------------------------------------
(* Properties of the monitors (SpecMon) *)

\* C18: in every state, from construction on, the alarm of
\* ActiveConfiguration_RBV is NO_ALARM only if every monitored motor PV is
\* connected; and once a connection event was handled it is LINK/MAJOR_ALARM
\* exactly when some motor PV is not connected
C18_AlarmTracksConnection ==
    /\ active_alarm = NoAlarm => \A pv \in MotorPVs : all_status[pv]
    /\ conn_events =>
          (active_alarm = LinkAlarm <=> \E pv \in MotorPVs : ~all_status[pv])

-----------------------------------------------------------------------------
(* Properties of apply_config (SpecApply) *)

Running == {c \in Clients : putters[c].pos > 0}

RECURSIVE EnqueuedBy(_)
EnqueuedBy(S) ==
    IF S = {} THEN 0
    ELSE LET c == CHOOSE x \in S : TRUE
         IN  (putters[c].pos - 1) + EnqueuedBy(S \ {c})

\* C19: a write of 'True' enqueues one put per blade, in blade order, for
\* the command PV of the blade, with state 0 sent as 1 and state 1 as 2, and
\* a write of 'False' enqueues nothing; put_thread takes the puts in the
\* order they were enqueued, loses none, and stays in its loop when a put raises
C19_ApplyInOrder ==
    /\ \A c \in Clients :
          LET p == putters[c]
          IN  /\ Len(p.config) \in {0, Cardinality(Blades)}
              /\ Len(p.batch) = IF p.pos = 0 THEN Len(p.config) ELSE p.pos - 1
              /\ \A k \in 1..Len(p.batch) :
                    /\ p.batch[k].pv = k
                    /\ p.config[k] = 0 => p.batch[k].value = 1
                    /\ p.config[k] = 1 => p.batch[k].value = 2
    /\ put_count = Cardinality(Blades) * (true_writes - Cardinality(Running))
                   + EnqueuedBy(Running)
    /\ thread_running
    /\ ~out_of_order
    /\ thread_item # NoItem => thread_item.seq = last_delivered + 1
    /\ \A k \in 1..Len(put_queue) :
          put_queue[k].seq = last_delivered + k
                             + (IF thread_item # NoItem THEN 1 ELSE 0)
    /\ put_count = last_delivered + Len(put_queue)
                   + (IF thread_item # NoItem THEN 1 ELSE 0)

\* a finished write of 'True' for a configuration with a blade in and a blade
\* out, a put that raised, and a put delivered behind it
C19_Witness ==
    /\ \E c \in Clients :
          /\ putters[c].pos = 0
          /\ Len(putters[c].batch) = Cardinality(Blades)
          /\ \E k \in 1..Len(putters[c].batch) : putters[c].batch[k].value = 1
          /\ \E k \in 1..Len(putters[c].batch) : putters[c].batch[k].value = 2
    /\ raised_seq > 0
    /\ last_delivered > raised_seq

=============================================================================
